---- MODULE Spec2Model ----
(***************************************************************************)
(* A model of the journal-abbrev object store (journalabbrev/db.py): the   *)
(* Journal record, its codec, the three-way merge, the name sanitizer and  *)
(* the JournalList facade over the three RocksDB column families           *)
(* (metadata, journals, journal_names).                                    *)
(*                                                                         *)
(* Strings that the code inspects character by character (journal names,   *)
(* index keys) are sequences of one-character strings; opaque strings      *)
(* (ISSNs, ISO4, CODEN) are TLA+ strings.                                  *)
(***************************************************************************)
EXTENDS Integers, Sequences, FiniteSets, TLC

VARIABLES
    metadata_cf,             \* metadata column family: journal_id counter, schema.version
    journals_cf,             \* primary table: JournalID -> encoded Journal
    journal_names_index_cf,  \* name index: key string -> JournalID
    last,                    \* the last facade call and what it returned
    callers,                 \* concurrent add() callers: position and locals
    _db,                     \* JournalDB._db: the engine handle, or None
    db_exists,               \* os.path.exists(JournalDB._filename)
    _force_upgrade_schema,   \* JournalDB._force_upgrade_schema
    emitted,                 \* the events the last open() emitted, in order
    index_cf_dropped,        \* the handle _journal_names_index_cf was dropped
    caller_batch             \* a rocksdb.WriteBatch the caller passes as batch

vars == <<metadata_cf, journals_cf, journal_names_index_cf, last, callers,
          _db, db_exists, _force_upgrade_schema, emitted, index_cf_dropped, caller_batch>>

store == <<metadata_cf, journals_cf, journal_names_index_cf>>

\* The JournalDB object and the caller's batch, which the facade calls on an
\* open store leave alone.
lifecycle == <<_db, db_exists, _force_upgrade_schema, emitted, index_cf_dropped, caller_batch>>

-----------------------------------------------------------------------------
(* Bounds of the model. *)

\* add() is enabled while the journal_id counter is below MaxIds.
MaxIds == 2

\* Concurrent callers of add().
NumCallers == 2

-----------------------------------------------------------------------------
(* Python values. *)

\* Python's None, for the optional string attributes.
None == "None"

\* What name_to_id gives when the index has no entry (Python's None for an id).
NoId == -1

Range(f) == {f[x] : x \in DOMAIN f}

-----------------------------------------------------------------------------
(* Characters: unicodedata.category, str.casefold and the regex classes \w *)
(* and \s, on the characters the model's names are written with.           *)

UpperCase == <<"A","B","C","D","E","F","G","H","I","J","K","L","M",
               "N","O","P","Q","R","S","T","U","V","W","X","Y","Z">>

LowerCase == <<"a","b","c","d","e","f","g","h","i","j","k","l","m",
               "n","o","p","q","r","s","t","u","v","w","x","y","z">>

Digits == {"0","1","2","3","4","5","6","7","8","9"}

\* unicodedata.category(char)[0]: L letter, N number, Z separator, P punctuation.
category(char) ==
    IF char \in Range(UpperCase) \cup Range(LowerCase) THEN "L"
    ELSE IF char \in Digits THEN "N"
    ELSE IF char = " " THEN "Z"
    ELSE "P"

\* str.casefold of one character.
casefold_char(char) ==
    IF char \in Range(UpperCase)
    THEN LowerCase[CHOOSE i \in DOMAIN UpperCase : UpperCase[i] = char]
    ELSE char

\* str.casefold.
casefold(s) == [i \in DOMAIN s |-> casefold_char(s[i])]

\* The regex class \w.
IsWordChar(char) == category(char) \in {"L", "N"} \/ char = "_"

\* The regex class \s.
IsSpaceChar(char) == char = " "

-----------------------------------------------------------------------------
(* _ignorable_words_regex and JournalList.sanitize_journal_name.           *)

\* The alternatives of the regex's first group, in the order the regex lists them.
ignorable_words == <<
    <<"t","h","e">>, <<"a">>, <<"l","e">>, <<"l","a">>, <<"l","e","s">>,
    <<"l","i">>, <<"g","l","i">>, <<"e","l">>, <<"l","o","s">>, <<"l","a","s">>,
    <<"d","e","r">>, <<"d","i","e">>, <<"d","a","s">> >>

\* \b at position i of s (between s[i-1] and s[i]).
WordBoundary(s, i) ==
    LET before == i > 1 /\ IsWordChar(s[i - 1])
        after  == i <= Len(s) /\ IsWordChar(s[i])
    IN  before # after

\* Whether word w, compared ignoring case, then one \s, is at position i of s.
WordThenSpaceAt(s, i, w) ==
    /\ i + Len(w) <= Len(s)
    /\ \A k \in 1..Len(w) : casefold_char(s[i + k - 1]) = w[k]
    /\ IsSpaceChar(s[i + Len(w)])

\* A regex anchored with ^: it matches at the start of the name only.
MatchLenAt_anchored(s, i) ==
    IF i # 1 \/ ~WordBoundary(s, i) THEN 0
    ELSE IF \E k \in DOMAIN ignorable_words : WordThenSpaceAt(s, i, ignorable_words[k])
    THEN LET k == CHOOSE k \in DOMAIN ignorable_words :
                      /\ WordThenSpaceAt(s, i, ignorable_words[k])
                      /\ \A m \in 1..(k - 1) : ~WordThenSpaceAt(s, i, ignorable_words[m])
         IN  Len(ignorable_words[k]) + 1
    ELSE IF i + 1 <= Len(s) /\ casefold_char(s[i]) = "l" /\ s[i + 1] = "'" THEN 2
    ELSE 0

\* The length of the regex's match starting at position i of s; 0 if none.
MatchLenAt(s, i) ==
    IF ~WordBoundary(s, i) THEN 0
    ELSE IF \E k \in DOMAIN ignorable_words : WordThenSpaceAt(s, i, ignorable_words[k])
    THEN LET k == CHOOSE k \in DOMAIN ignorable_words :
                      /\ WordThenSpaceAt(s, i, ignorable_words[k])
                      /\ \A m \in 1..(k - 1) : ~WordThenSpaceAt(s, i, ignorable_words[m])
         IN  Len(ignorable_words[k]) + 1
    ELSE IF i + 1 <= Len(s) /\ casefold_char(s[i]) = "l" /\ s[i + 1] = "'" THEN 2
    ELSE 0

\* _ignorable_words_regex.sub("", s) from position i on: every match, left to
\* right, is dropped.
RECURSIVE regex_sub_from(_, _)
regex_sub_from(s, i) ==
    IF i > Len(s) THEN <<>>
    ELSE LET n == MatchLenAt(s, i)
         IN  IF n > 0 THEN regex_sub_from(s, i + n)
             ELSE <<s[i]>> \o regex_sub_from(s, i + 1)

regex_sub(s) == regex_sub_from(s, 1)

\* The loop of lines 174-181: keep letters, numbers, separators and ":".
keep_char(char) == category(char) \in {"L", "N", "Z"} \/ char = ":"

sanitize_journal_name(name) == SelectSeq(regex_sub(name), keep_char)

\* The index key add, query and rebuild_indexes derive from a name.
index_name(name) == casefold(sanitize_journal_name(name))

-----------------------------------------------------------------------------
(* The Journal record (db.py, class Journal) and the values the model      *)
(* feeds to the facade.                                                    *)

\* get_pub_attrs(Journal), in the order of the class's annotations.
pub_attrs == <<"names", "issn_print", "issn_web", "iso4", "coden">>

\* DBObjectMeta: the attributes whose type is a Collection.
_collection_attrs == {"names"}

\* Journal(): names is an empty set, every other attribute is the class default.
NewJournal ==
    [names |-> {}, issn_print |-> None, issn_web |-> None, iso4 |-> None, coden |-> None]

\* names = None, the class default a record falls back to when its dict
\* carries no names (db.py:93, 72-75): a value that no set of names equals.
NoNames == {<<None>>}

\* Display names: "Foo" and "foo" differ only in case, and "foo" is its own
\* index key.
Foo == <<"F","o","o">>
foo == <<"f","o","o">>

Names == {Foo, foo}

\* The Journal values callers pass in.
Journals ==
    [names : SUBSET Names,
     issn_print : {None},
     issn_web : {None},
     iso4 : {None, "ABC", "XYZ"},
     coden : {None}]

\* Journal values with every optional attribute both absent and present.
FullJournals ==
    [names : SUBSET Names,
     issn_print : {None, "0028-0836"},
     issn_web : {None, "1476-4687"},
     iso4 : {None, "ABC", "XYZ"},
     coden : {None, "NATUAS"}]

\* Journal values that differ in their names only.
NamedJournals == {journal \in Journals : journal.iso4 = None}

-----------------------------------------------------------------------------
(* The codec: _encode / _decode with msgpack extension types 1 and 10.     *)

\* tuple(obj) of a set: its elements in some order.
RECURSIVE tuple(_)
tuple(S) ==
    IF S = {} THEN <<>>
    ELSE LET x == CHOOSE x \in S : TRUE IN <<x>> \o tuple(S \ {x})

\* value is not None, for the value of attribute a.
IsPresent(journal, a) ==
    IF a \in _collection_attrs THEN journal[a] # NoNames ELSE journal[a] # None

\* DBObject.asdict: the attributes that are not None.
asdict(journal) ==
    LET present == {a \in Range(pub_attrs) : IsPresent(journal, a)}
    IN  [a \in present |-> journal[a]]

\* _encode of a set: ExtType 1 around the packed tuple of its elements.
_encode_set(obj) == [code |-> 1, data |-> tuple(obj)]

\* _encode of a Journal: ExtType 10 around the packed asdict(), whose set
\* values go through _encode in turn.
_encode(obj) ==
    LET d == asdict(obj)
    IN  [code |-> 10,
         data |-> [a \in DOMAIN d |->
                      IF a \in _collection_attrs THEN _encode_set(d[a]) ELSE d[a]]]

\* A fromdict that forgets to install the decoded dict.
fromdict_fresh(d) == NewJournal

\* DBObject.fromdict: the instance's __dict__ is d; an attribute d lacks reads
\* as the class default.
fromdict(d) ==
    [a \in Range(pub_attrs) |->
        IF a \in DOMAIN d THEN d[a]
        ELSE IF a \in _collection_attrs THEN NoNames ELSE None]

\* _decode of ExtType 1: set(unpacked tuple).
_decode_set(ext) == Range(ext.data)

\* _decode of ExtType 10: Journal.fromdict of the unpacked dict, whose
\* ExtType 1 values are decoded by the same hook.
_decode(ext) ==
    fromdict([a \in DOMAIN ext.data |->
                 IF a \in _collection_attrs THEN _decode_set(ext.data[a]) ELSE ext.data[a]])

-----------------------------------------------------------------------------
(* The merge engine: merge_strategy_xor, SetStrategies.strategy_union,     *)
(* deepmerge's Merger.value_strategy and DBObject._merge_strategy.         *)

\* deepmerge's STRATEGY_END.
STRATEGY_END == "STRATEGY_END"

\* A merge strategy that lets the incoming value win instead of stopping.
merge_strategy_take_nxt(base, nxt) == IF nxt = None THEN base ELSE nxt

\* merge_strategy_xor on optional strings.
merge_strategy_xor(base, nxt) ==
    IF base = None THEN nxt
    ELSE IF nxt = None THEN base
    ELSE IF base = nxt THEN base
    ELSE STRATEGY_END

\* SetStrategies.strategy_override.
strategy_override(base, nxt) == nxt

\* SetStrategies.strategy_union.
strategy_union(base, nxt) == base \cup nxt

\* Merger.value_strategy for attribute a: two sets go to strategy_union; two
\* strings go to the fallback list and a string or a set against None to the
\* type-conflict list, both of which are [merge_strategy_xor].
value_strategy(a, base, nxt) ==
    IF a \in _collection_attrs
    THEN IF base = NoNames THEN nxt
         ELSE IF nxt = NoNames THEN base
         ELSE strategy_union(base, nxt)
    ELSE merge_strategy_xor(base, nxt)

\* "not base_attr_value": None, the empty string and the empty set are falsy.
Falsy(a, value) ==
    IF a \in _collection_attrs THEN value \in {{}, NoNames} ELSE value \in {None, ""}

\* DBObject._merge_strategy from attribute number i on. base is mutated in
\* place attribute by attribute, so a conflict leaves it merged up to the
\* conflicting attribute. A conflict is deepmerge's InvalidMerge, which
\* carries the path and both values.
RECURSIVE _merge_strategy_from(_, _, _)
_merge_strategy_from(base, nxt, i) ==
    IF i > Len(pub_attrs) THEN [ok |-> TRUE, base |-> base]
    ELSE LET a == pub_attrs[i]
         IN  IF Falsy(a, base[a])
             THEN _merge_strategy_from([base EXCEPT ![a] = nxt[a]], nxt, i + 1)
             ELSE LET v == value_strategy(a, base[a], nxt[a])
                  IN  IF a \notin _collection_attrs /\ v = STRATEGY_END
                      THEN [ok |-> FALSE, base |-> base,
                            path |-> <<a>>, base_value |-> base[a], nxt_value |-> nxt[a]]
                      ELSE _merge_strategy_from([base EXCEPT ![a] = v], nxt, i + 1)

_merge_strategy(base, nxt) == _merge_strategy_from(base, nxt, 1)

\* Journal.merge: the merged record is the base object itself, mutated.
Journal_merge(base, nxt) == _merge_strategy(base, nxt)

-----------------------------------------------------------------------------
(* The storage engine: column families as functions, rocksdb.WriteBatch as *)
(* a sequence of operations, DB.write as their atomic application in       *)
(* order. _pack of an int or a str is injective, so a key stands for its   *)
(* packed bytes.                                                           *)

_metadata_cf_name == "metadata"
_journals_cf_name == "journals"
_journal_names_index_cf_name == "journal_names"
_journal_id_key == "journal_id"
_schema_version_key == "schema.version"

\* JournalDB.latest_schema_version, as the ordinal of the release.
latest_schema_version == 1

\* The database as the code reads it: one function per column family.
db == [metadata |-> metadata_cf,
       journals |-> journals_cf,
       journal_names |-> journal_names_index_cf]

batch_put(cf, key, value) == [op |-> "put", cf |-> cf, key |-> key, value |-> value]
batch_delete(cf, key) == [op |-> "delete", cf |-> cf, key |-> key]
batch_merge(cf, key, value) == [op |-> "merge", cf |-> cf, key |-> key, value |-> value]

\* A merge operator that takes the operand for every key.
MetadataMergeOperator_merge_operand(key, has_existing, existing_value, value) == value

\* MetadataMergeOperator.merge: the journal_id key sums, any other key (or a
\* missing value) takes the operand.
MetadataMergeOperator_merge(key, has_existing, existing_value, value) ==
    IF has_existing /\ key = _journal_id_key THEN existing_value + value ELSE value

\* One operation of a batch applied to the contents f of its column family.
apply_op(f, o) ==
    IF o.op = "put"
    THEN [k \in DOMAIN f \cup {o.key} |-> IF k = o.key THEN o.value ELSE f[k]]
    ELSE IF o.op = "delete"
    THEN [k \in DOMAIN f \ {o.key} |-> f[k]]
    ELSE [k \in DOMAIN f \cup {o.key} |->
             IF k = o.key
             THEN MetadataMergeOperator_merge(o.key, o.key \in DOMAIN f,
                                              IF o.key \in DOMAIN f THEN f[o.key] ELSE 0,
                                              o.value)
             ELSE f[k]]

\* DB.write(batch) from operation number i on.
RECURSIVE write_from(_, _, _)
write_from(d, batch, i) ==
    IF i > Len(batch) THEN d
    ELSE write_from([d EXCEPT ![batch[i].cf] = apply_op(@, batch[i])], batch, i + 1)

write(d, batch) == write_from(d, batch, 1)

\* The three column families take the contents of d.
Commit(d) ==
    /\ metadata_cf' = d.metadata
    /\ journals_cf' = d.journals
    /\ journal_names_index_cf' = d.journal_names

-----------------------------------------------------------------------------
(* JournalDB._gen_journal_id and the reading half of the facade.           *)

\* An id taken from the number of stored records instead of the counter.
next_journal_id_from_count == Cardinality(DOMAIN journals_cf)

\* _get_metadata(_journal_id_key).
next_journal_id == metadata_cf[_journal_id_key]

\* The batch operation _gen_journal_id appends: merge +1 on the counter.
_gen_journal_id_op == batch_merge(_metadata_cf_name, _journal_id_key, 1)

\* JournalList.get: the decoded record, or None (id NoId stands for get(None)).
HasJournal(id) == id \in DOMAIN journals_cf

get(id) == _decode(journals_cf[id])

\* JournalList.__iter__: the stored ids in key order.
RECURSIVE sorted_ids(_)
sorted_ids(S) ==
    IF S = {} THEN <<>>
    ELSE LET m == CHOOSE m \in S : \A x \in S : m <= x
         IN  <<m>> \o sorted_ids(S \ {m})

\* Journal.matches(names_key, value) for a string value.
matches_names(journal, value) ==
    \E el \in journal.names : casefold(el) = casefold(value)

\* str.casefold of the scalar values the model's records and queries carry.
casefold_str(s) ==
    IF s \in {"ABC", "Abc", "abc"} THEN "abc"
    ELSE IF s \in {"XYZ", "xyz"} THEN "xyz"
    ELSE s

\* Journal.matches(key, value) for a scalar key and a string value, skipping
\* a record whose attribute is None.
matches_scalar_skipping(journal, key, value) ==
    [raised |-> "",
     returned |-> journal[key] # None /\ casefold_str(journal[key]) = casefold_str(value)]

\* Journal.matches(key, value) for a scalar key and a string value (lines
\* 121-128): getattr(self, key).casefold() is called whatever the attribute
\* holds, and None has no casefold.
matches_scalar(journal, key, value) ==
    IF journal[key] = None
    THEN [raised |-> "AttributeError", returned |-> FALSE]
    ELSE [raised |-> "", returned |-> casefold_str(journal[key]) = casefold_str(value)]

\* list(JournalList.query(key, value)) for a scalar key and a string value:
\* line 273 scans the primary table in key order, and the first record whose
\* matches() raises ends the scan with that exception.
query_scalar(key, value) ==
    LET ids == sorted_ids(DOMAIN journals_cf)
        hit(i) == matches_scalar(get(i), key, value).returned
        raising == {i \in DOMAIN journals_cf : matches_scalar(get(i), key, value).raised # ""}
    IN  IF raising # {}
        THEN [raised |-> matches_scalar(get(CHOOSE i \in raising : TRUE), key, value).raised,
              rows |-> <<>>]
        ELSE [raised |-> "",
              rows |-> [k \in DOMAIN SelectSeq(ids, hit) |->
                           <<SelectSeq(ids, hit)[k], get(SelectSeq(ids, hit)[k])>>]]

\* query's name_to_id.
name_to_id(name) ==
    IF index_name(name) \in DOMAIN journal_names_index_cf
    THEN journal_names_index_cf[index_name(name)]
    ELSE NoId

\* JournalList.query(Journal.names_key, name) for a string: the index hit if
\* there is one (the assert of name_to_journal fails on an entry whose record
\* is gone); without a hit, line 273's scan of the primary table.
query_names(name) ==
    LET id == name_to_id(name)
    IN  IF id # NoId /\ ~HasJournal(id)
        THEN [raised |-> "AssertionError", rows |-> <<>>]
        ELSE IF id # NoId
        THEN [raised |-> "", rows |-> << <<id, get(id)>> >>]
        ELSE LET ids == sorted_ids(DOMAIN journals_cf)
                 hit(i) == matches_names(get(i), name)
             IN  [raised |-> "",
                  rows |-> [k \in DOMAIN SelectSeq(ids, hit) |->
                               <<SelectSeq(ids, hit)[k], get(SelectSeq(ids, hit)[k])>>]]

-----------------------------------------------------------------------------
(* The batches the mutating facade calls build.                            *)

\* An add that indexes the display name as it is.
add_batch_raw_names(id, journal) ==
    LET names == tuple(journal.names)
    IN  <<_gen_journal_id_op, batch_put(_journals_cf_name, id, _encode(journal))>>
        \o [i \in DOMAIN names |-> batch_put(_journal_names_index_cf_name, names[i], id)]

\* JournalList.add, lines 198-202.
add_batch(id, journal) ==
    LET names == tuple(journal.names)
    IN  <<_gen_journal_id_op, batch_put(_journals_cf_name, id, _encode(journal))>>
        \o [i \in DOMAIN names |->
               batch_put(_journal_names_index_cf_name, index_name(names[i]), id)]

\* JournalList.remove, lines 213-215: the index keys deleted are the display
\* names themselves.
remove_batch(id, journal) ==
    LET names == tuple(journal.names)
    IN  <<batch_delete(_journals_cf_name, id)>>
        \o [i \in DOMAIN names |-> batch_delete(_journal_names_index_cf_name, names[i])]

\* JournalList.update, lines 231-235: the index keys deleted and put are the
\* display names themselves.
update_batch(id, journal_new, journal_old) ==
    LET removed == tuple(journal_old.names \ journal_new.names)
        added   == tuple(journal_new.names \ journal_old.names)
    IN  <<batch_put(_journals_cf_name, id, _encode(journal_new))>>
        \o [i \in DOMAIN removed |-> batch_delete(_journal_names_index_cf_name, removed[i])]
        \o [i \in DOMAIN added |-> batch_put(_journal_names_index_cf_name, added[i], id)]

-----------------------------------------------------------------------------
(* The facade calls of one caller, each with its implicit batch written    *)
(* before the call returns.                                                *)

Ids == 0..(MaxIds - 1)

\* self.emit(name, *args), as the entry it adds to emitted.
emit(name, args) == [name |-> name, args |-> args]

Called(op, id, journal, raised, returned, merge_args) ==
    [op |-> op, id |-> id, journal |-> journal,
     raised |-> raised, returned |-> returned, merge_args |-> merge_args]

\* The store right after open() created it: lines 452-465.
InitStore ==
    /\ metadata_cf = [k \in {_schema_version_key, _journal_id_key} |->
                         IF k = _journal_id_key THEN 0 ELSE latest_schema_version]
    /\ journals_cf = <<>>
    /\ journal_names_index_cf = <<>>
    /\ callers = [c \in 1..NumCallers |-> [pc |-> "idle", id |-> NoId, journal |-> NewJournal,
                                          returned |-> <<>>]]
    /\ _db = "DB"
    /\ db_exists = TRUE
    /\ _force_upgrade_schema = FALSE
    /\ emitted = <<emit("created", <<latest_schema_version>>)>>
    /\ index_cf_dropped = FALSE
    /\ caller_batch = <<>>

Init ==
    /\ InitStore
    /\ last = Called("open", NoId, NewJournal, "", None, <<>>)

\* id = journals.add(journal), by caller 1.
Add(journal) ==
    /\ next_journal_id < MaxIds
    /\ LET id == next_journal_id
       IN  /\ Commit(write(db, add_batch(id, journal)))
           /\ last' = Called("add", id, journal, "", id, <<>>)
           /\ callers' = [callers EXCEPT ![1].returned = Append(@, id)]
    /\ UNCHANGED lifecycle

\* journals.remove(id)
Remove(id) ==
    /\ IF ~HasJournal(id)
       THEN /\ UNCHANGED store
            /\ last' = Called("remove", id, NewJournal, "", FALSE, <<>>)
       ELSE /\ Commit(write(db, remove_batch(id, get(id))))
            /\ last' = Called("remove", id, get(id), "", TRUE, <<>>)
    /\ UNCHANGED <<callers, lifecycle>>

\* journals.update(id, journal_new): journal_old is read with get(id); a
\* missing record makes line 232 raise before anything is written.
Update(id, journal_new) ==
    /\ IF ~HasJournal(id)
       THEN /\ UNCHANGED store
            /\ last' = Called("update", id, journal_new, "AttributeError", None, <<>>)
       ELSE /\ Commit(write(db, update_batch(id, journal_new, get(id))))
            /\ last' = Called("update", id, journal_new, "", None, <<>>)
    /\ UNCHANGED <<callers, lifecycle>>

\* journals.merge(id, journal_new): journal_old is read with get(id) (or is
\* the caller's copy of that record). Journal.merge returns journal_old
\* itself, mutated, so update() is handed the same object as journal_new and
\* as journal_old.
Merge(id, journal_new) ==
    /\ IF ~HasJournal(id)
       THEN /\ UNCHANGED store
            /\ last' = Called("merge", id, journal_new, "AttributeError", None, <<>>)
       ELSE LET m == Journal_merge(get(id), journal_new)
            IN  IF ~m.ok
                THEN /\ UNCHANGED store
                     /\ last' = Called("merge", id, journal_new, "InvalidMerge", None,
                                       <<m.path, m.base_value, m.nxt_value>>)
                ELSE LET journal_merged == m.base
                         journal_old == m.base
                     IN  /\ Commit(write(db, update_batch(id, journal_merged, journal_old)))
                         /\ last' = Called("merge", id, journal_new, "", None, <<>>)
    /\ UNCHANGED <<callers, lifecycle>>

Next ==
    \/ \E journal \in Journals : Add(journal)
    \/ \E id \in Ids : Remove(id)
    \/ \E id \in Ids, journal \in Journals : Update(id, journal)
    \/ \E id \in Ids, journal \in Journals : Merge(id, journal)

Spec == Init /\ [][Next]_vars

\* add and remove alone, over journals with every attribute absent or present.
NextCodec ==
    \/ \E journal \in FullJournals : Add(journal)
    \/ \E id \in Ids : Remove(id)

SpecCodec == Init /\ [][NextCodec]_vars

\* The scalar attributes a query is made on, and the values it looks for.
QueryKeys == {"iso4", "coden"}
QueryValues == {"ABC", "abc"}

\* list(journals.query(key, value)) for a scalar key and a string value.
QueryScalar(key, value) ==
    /\ last' = [key |-> key, value |-> value] @@
                   Called("query", NoId, NewJournal, query_scalar(key, value).raised,
                          query_scalar(key, value).rows, <<>>)
    /\ UNCHANGED <<store, callers, lifecycle>>

NextQuery ==
    \/ \E journal \in Journals : Add(journal)
    \/ \E id \in Ids : Remove(id)
    \/ \E key \in QueryKeys, value \in QueryValues : QueryScalar(key, value)

SpecQuery == Init /\ [][NextQuery]_vars

-----------------------------------------------------------------------------
(* add() called by several callers at once. A call touches the database    *)
(* twice: _gen_journal_id reads the counter (line 493), and DB.write       *)
(* applies the batch (line 204); everything between is local to the call.  *)

\* An add whose _merge_metadata goes to the engine at once instead of into
\* the batch.
AddGenId_merging_db(c, journal) ==
    /\ callers[c].pc = "idle"
    /\ next_journal_id < MaxIds
    /\ callers' = [callers EXCEPT ![c].pc = "write",
                                  ![c].id = next_journal_id,
                                  ![c].journal = journal]
    /\ Commit(write(db, <<_gen_journal_id_op>>))
    /\ UNCHANGED <<last, lifecycle>>

\* Lines 197-202: the counter is read and the batch is built.
AddGenId(c, journal) ==
    /\ callers[c].pc = "idle"
    /\ next_journal_id < MaxIds
    /\ callers' = [callers EXCEPT ![c].pc = "write",
                                  ![c].id = next_journal_id,
                                  ![c].journal = journal]
    /\ UNCHANGED <<store, last, lifecycle>>

\* Lines 203-205: the batch is written and the id is returned.
AddWrite(c) ==
    /\ callers[c].pc = "write"
    /\ Commit(write(db, add_batch(callers[c].id, callers[c].journal)))
    /\ last' = Called("add", callers[c].id, callers[c].journal, "", callers[c].id, <<>>)
    /\ callers' = [callers EXCEPT ![c].pc = "idle",
                                  ![c].id = NoId,
                                  ![c].journal = NewJournal,
                                  ![c].returned = Append(@, callers[c].id)]
    /\ UNCHANGED lifecycle

NextConc ==
    \/ \E c \in 1..NumCallers, journal \in NamedJournals : AddGenId(c, journal)
    \/ \E c \in 1..NumCallers : AddWrite(c)

SpecConc == Init /\ [][NextConc]_vars

-----------------------------------------------------------------------------
(* The life of a JournalDB object: open() with its schema migration,       *)
(* close(), and the facade called on an open and on a closed store.        *)

\* Schema versions as release numbers: the release before this program's,
\* this program's, and the release after it.
SchemaVersions == (latest_schema_version - 1)..(latest_schema_version + 1)

\* The journals of a store that an earlier run of the program filled.
StoredJournals == {journal \in NamedJournals : Cardinality(journal.names) = 1}

\* A database as open() creates it, at schema version version.
created_db(version) ==
    [metadata |-> [k \in {_schema_version_key, _journal_id_key} |->
                      IF k = _journal_id_key THEN 0 ELSE version],
     journals |-> <<>>,
     journal_names |-> <<>>]

\* The database after add() of each of journals in turn.
RECURSIVE filled_db(_, _)
filled_db(d, journals) ==
    IF journals = <<>> THEN d
    ELSE filled_db(write(d, add_batch(d.metadata[_journal_id_key], Head(journals))),
                   Tail(journals))

\* No file yet, or the file of an earlier run: of this release, of an older
\* one or of a newer one, holding up to MaxIds records. The JournalDB object
\* is constructed, with or without force_upgrade_schema, and not open.
InitLife ==
    /\ db_exists \in BOOLEAN
    /\ IF db_exists
       THEN \E version \in SchemaVersions :
            \E journals \in UNION {[1..n -> StoredJournals] : n \in 0..MaxIds} :
                LET d == filled_db(created_db(version), journals)
                IN  /\ metadata_cf = d.metadata
                    /\ journals_cf = d.journals
                    /\ journal_names_index_cf = d.journal_names
       ELSE /\ metadata_cf = <<>>
            /\ journals_cf = <<>>
            /\ journal_names_index_cf = <<>>
    /\ _force_upgrade_schema \in BOOLEAN
    /\ _db = None
    /\ emitted = <<>>
    /\ index_cf_dropped = FALSE
    /\ caller_batch = <<>>
    /\ callers = [c \in 1..NumCallers |-> [pc |-> "idle", id |-> NoId, journal |-> NewJournal,
                                          returned |-> <<>>]]
    /\ last = Called("JournalDB", NoId, NewJournal, "", None, <<>>)

\* An _upgrade_schema that reaches its end: it writes nothing back for the
\* no-op transform, puts the latest version and emits upgrade_finished.
_upgrade_schema_to_end(cur_schema_version) ==
    LET ids == sorted_ids(DOMAIN journals_cf)
    IN  [raised |-> "",
         line |-> 444,
         emitted |-> <<emit("upgrade_started",
                            <<cur_schema_version, latest_schema_version, Len(ids)>>),
                       emit("upgrade_progress", <<0>>)>>
                     \o [i \in DOMAIN ids |-> emit("upgrade_progress", <<i, 0>>)]
                     \o <<emit("upgrade_finished", <<latest_schema_version, Len(ids)>>)>>,
         metadata |-> [metadata_cf EXCEPT ![_schema_version_key] = latest_schema_version]]

\* JournalDB._upgrade_schema. Line 435 tests update_journal, the function,
\* which is never None, so the first record goes to update(id, None), and
\* line 232 raises AttributeError on None.names before anything is written.
\* Without records the loop is skipped and line 442 calls self._pu_metadata,
\* an attribute JournalDB does not have: AttributeError again. Neither way
\* is the version put or upgrade_finished emitted.
_upgrade_schema(cur_schema_version) ==
    LET ids == sorted_ids(DOMAIN journals_cf)
    IN  [raised |-> "AttributeError",
         line |-> IF ids # <<>> THEN 232 ELSE 442,
         emitted |-> <<emit("upgrade_started",
                            <<cur_schema_version, latest_schema_version, Len(ids)>>),
                       emit("upgrade_progress", <<0>>)>>,
         metadata |-> metadata_cf]

\* An open() that migrates an outdated store only, whatever force says.
needs_upgrade_unforced(cur_schema_version) ==
    cur_schema_version < latest_schema_version

\* Line 470: the stored schema is outdated, or the upgrade is forced.
needs_upgrade(cur_schema_version) ==
    cur_schema_version < latest_schema_version \/ _force_upgrade_schema

\* JournalDB.open(). rocksdb.DB opens the database, creating it and any
\* missing column family, and the handles are taken anew. An exception of
\* the migration leaves open() after _db was set.
Open ==
    /\ _db = None
    /\ _db' = "DB"
    /\ db_exists' = TRUE
    /\ index_cf_dropped' = FALSE
    /\ IF ~db_exists
       THEN /\ Commit(created_db(latest_schema_version))
            /\ emitted' = <<emit("created", <<latest_schema_version>>)>>
            /\ last' = Called("open", NoId, NewJournal, "", None, <<>>)
       ELSE LET cur_schema_version == metadata_cf[_schema_version_key]
            IN  IF needs_upgrade(cur_schema_version)
                THEN LET upgrade == _upgrade_schema(cur_schema_version)
                     IN  /\ metadata_cf' = upgrade.metadata
                         /\ UNCHANGED <<journals_cf, journal_names_index_cf>>
                         /\ emitted' = upgrade.emitted
                         /\ last' = Called("open", NoId, NewJournal, upgrade.raised,
                                           None, <<>>)
                ELSE /\ UNCHANGED store
                     /\ emitted' = <<>>
                     /\ last' = Called("open", NoId, NewJournal, "", None, <<>>)
    /\ UNCHANGED <<callers, _force_upgrade_schema, caller_batch>>

\* JournalDB.close()
Close ==
    /\ _db' = None
    /\ last' = Called("close", NoId, NewJournal, "", None, <<>>)
    /\ UNCHANGED <<store, callers, db_exists, _force_upgrade_schema, emitted,
                   index_cf_dropped, caller_batch>>

\* A call that reaches self._jdb._db.<method> while _db is None: Python
\* raises AttributeError and nothing is written.
ClosedCall(op, id, journal) ==
    /\ _db = None
    /\ last' = Called(op, id, journal, "AttributeError", None, <<>>)
    /\ UNCHANGED <<store, callers, lifecycle>>

\* jdb.journals.add(journal): _check_open()'s result is dropped (line 505),
\* so the call goes on to _gen_journal_id, which reads through _db.
JournalsAdd(journal) ==
    \/ ClosedCall("add", NoId, journal)
    \/ _db # None /\ ~index_cf_dropped /\ Add(journal)

\* jdb.journals.remove(id), whose get(id) reads through _db.
JournalsRemove(id) ==
    \/ ClosedCall("remove", id, NewJournal)
    \/ _db # None /\ ~index_cf_dropped /\ Remove(id)

\* jdb.journals.update(id, journal_new), whose get(id) reads through _db.
JournalsUpdate(id, journal_new) ==
    \/ ClosedCall("update", id, journal_new)
    \/ _db # None /\ ~index_cf_dropped /\ Update(id, journal_new)

\* jdb.journals.merge(id, journal_new), whose get(id) reads through _db.
JournalsMerge(id, journal_new) ==
    \/ ClosedCall("merge", id, journal_new)
    \/ _db # None /\ ~index_cf_dropped /\ Merge(id, journal_new)

\* A get that takes a missing key for an error.
Get_raising(id) ==
    \/ ClosedCall("get", id, NewJournal)
    \/ /\ _db # None
       /\ last' = IF HasJournal(id)
                   THEN Called("get", id, NewJournal, "", get(id), <<>>)
                   ELSE Called("get", id, NewJournal, "KeyError", None, <<>>)
       /\ UNCHANGED <<store, callers, lifecycle>>

\* jdb.journals.get(id): key_may_exist returns a non-empty tuple, so line 192
\* always runs; DB.get gives None for a missing key and _unpack passes None on.
Get(id) ==
    \/ ClosedCall("get", id, NewJournal)
    \/ /\ _db # None
       /\ last' = Called("get", id, NewJournal, "",
                         IF HasJournal(id) THEN get(id) ELSE None, <<>>)
       /\ UNCHANGED <<store, callers, lifecycle>>

\* list(jdb.journals.query(Journal.names_key, name)) for a string name.
Query(name) ==
    \/ ClosedCall("query", NoId, [NewJournal EXCEPT !.names = {name}])
    \/ /\ _db # None
       /\ ~index_cf_dropped
       /\ last' = Called("query", NoId, [NewJournal EXCEPT !.names = {name}],
                         query_names(name).raised, query_names(name).rows, <<>>)
       /\ UNCHANGED <<store, callers, lifecycle>>

\* jdb.schema_version(): _check_open()'s result is dropped (line 498) and
\* _get_metadata reads through _db.
SchemaVersion ==
    \/ ClosedCall("schema_version", NoId, NewJournal)
    \/ /\ _db # None
       /\ last' = Called("schema_version", NoId, NewJournal, "",
                         metadata_cf[_schema_version_key], <<>>)
       /\ UNCHANGED <<store, callers, lifecycle>>

\* A call is handed the caller's batch while it holds fewer operations.
MaxBatchOps == 1

\* jdb.journals.update(id, journal_new, journal_old, batch) with the caller's
\* copy of the record and the caller's batch: lines 227-237 read nothing and
\* write nothing, they append to the batch, open store or closed.
UpdateInBatch(id, journal_new, journal_old) ==
    /\ Len(caller_batch) < MaxBatchOps
    /\ caller_batch' = caller_batch \o update_batch(id, journal_new, journal_old)
    /\ last' = Called("update", id, journal_new, "", None, <<>>)
    /\ UNCHANGED <<store, callers, _db, db_exists, _force_upgrade_schema, emitted,
                   index_cf_dropped>>

\* The most add() calls that are handed the same batch.
MaxBatchAdds == 2

\* The add() calls that have appended to batch: one counter merge each.
AddsIn(batch) == Cardinality({i \in DOMAIN batch : batch[i].op = "merge"})

\* jdb.journals.add(journal, batch) with the caller's batch: _gen_journal_id
\* reads the counter from the engine (line 493) and appends its +1 merge to
\* the batch (line 494), so the counter it reads does not show the adds the
\* batch already holds; lines 199-202 append the puts and nothing is written.
AddInBatch(journal) ==
    \/ ClosedCall("add", NoId, journal)
    \/ /\ _db # None
       /\ ~index_cf_dropped
       /\ AddsIn(caller_batch) < MaxBatchAdds
       /\ next_journal_id + AddsIn(caller_batch) < MaxIds
       /\ LET id == next_journal_id
          IN  /\ caller_batch' = caller_batch \o add_batch(id, journal)
              /\ last' = Called("add", id, journal, "", id, <<>>)
              /\ callers' = [callers EXCEPT ![1].returned = Append(@, id)]
       /\ UNCHANGED <<store, _db, db_exists, _force_upgrade_schema, emitted,
                      index_cf_dropped>>

\* The caller commits its batch, jdb._db.write(batch), and takes a new one.
WriteCallerBatch ==
    /\ caller_batch # <<>>
    /\ \/ ClosedCall("write", NoId, NewJournal)
       \/ /\ _db # None
          /\ ~index_cf_dropped
          /\ Commit(write(db, caller_batch))
          /\ caller_batch' = <<>>
          /\ last' = Called("write", NoId, NewJournal, "", None, <<>>)
          /\ UNCHANGED <<callers, _db, db_exists, _force_upgrade_schema, emitted,
                         index_cf_dropped>>

\* drop_column_family on a handle that was dropped before: the engine
\* refuses it, or the binding lets it pass; the source does not say which.
DropAgain(op) ==
    /\ index_cf_dropped
    /\ last' = Called(op, NoId, NewJournal, "ValueError", None, <<>>)
    /\ UNCHANGED <<store, callers, lifecycle>>

\* jdb.journals.delete_indexes(): the journal_names column family is dropped
\* with all its entries; _journal_names_index_cf keeps the dropped handle.
DeleteIndexes ==
    \/ ClosedCall("delete_indexes", NoId, NewJournal)
    \/ _db # None /\ DropAgain("delete_indexes")
    \/ /\ _db # None
       /\ journal_names_index_cf' = <<>>
       /\ index_cf_dropped' = TRUE
       /\ last' = [dropped |-> journal_names_index_cf]
                   @@ Called("delete_indexes", NoId, NewJournal, "", None, <<>>)
       /\ UNCHANGED <<metadata_cf, journals_cf, callers, _db, db_exists,
                      _force_upgrade_schema, emitted, caller_batch>>

\* The puts of lines 290-293 for the records ids, in that order.
RECURSIVE rebuild_puts(_)
rebuild_puts(ids) ==
    IF ids = <<>> THEN <<>>
    ELSE LET id == Head(ids)
             names == tuple(get(id).names)
         IN  [i \in DOMAIN names |->
                 batch_put(_journal_names_index_cf_name, index_name(names[i]), id)]
             \o rebuild_puts(Tail(ids))

\* A rebuild that skips delete_indexes and puts over the entries it finds.
rebuild_indexes_over_old ==
    write(db, rebuild_puts(sorted_ids(DOMAIN journals_cf)))

\* The database after lines 288-293: a new, empty journal_names column
\* family, then one put per name of every record, in key order.
rebuild_indexes ==
    write([db EXCEPT !.journal_names = <<>>], rebuild_puts(sorted_ids(DOMAIN journals_cf)))

\* jdb.journals.rebuild_indexes(): delete_indexes() first, line 286.
RebuildIndexes ==
    \/ ClosedCall("rebuild_indexes", NoId, NewJournal)
    \/ _db # None /\ DropAgain("rebuild_indexes")
    \/ /\ _db # None
       /\ Commit(rebuild_indexes)
       /\ index_cf_dropped' = FALSE
       /\ last' = Called("rebuild_indexes", NoId, NewJournal, "", None, <<>>)
       /\ UNCHANGED <<callers, _db, db_exists, _force_upgrade_schema, emitted,
                      caller_batch>>

\* open() and close() on every kind of file, and the facade in between.
NextLife ==
    \/ Open
    \/ Close
    \/ \E journal \in StoredJournals : JournalsAdd(journal)
    \/ \E id \in Ids : JournalsRemove(id)
    \/ \E id \in Ids : Get(id)
    \/ SchemaVersion

SpecLife == InitLife /\ [][NextLife]_vars

\* Every facade call, with and without the caller's copy and batch, on a
\* store that is closed and opened again at will.
NextClosed ==
    \/ Open
    \/ Close
    \/ \E journal \in StoredJournals : JournalsAdd(journal)
    \/ \E id \in Ids : JournalsRemove(id)
    \/ \E id \in Ids, journal \in StoredJournals : JournalsUpdate(id, journal)
    \/ \E id \in Ids, journal \in StoredJournals : JournalsMerge(id, journal)
    \/ \E id \in Ids : Get(id)
    \/ \E name \in Names : Query(name)
    \/ SchemaVersion
    \/ \E id \in Ids, journal_new \in StoredJournals, journal_old \in StoredJournals :
           UpdateInBatch(id, journal_new, journal_old)
    \/ WriteCallerBatch

SpecClosed == Init /\ [][NextClosed]_vars

\* add() calls with a batch of their own and with the caller's batch.
NextBatch ==
    \/ Open
    \/ Close
    \/ \E journal \in StoredJournals : JournalsAdd(journal)
    \/ \E journal \in StoredJournals : AddInBatch(journal)
    \/ WriteCallerBatch

SpecBatch == Init /\ [][NextBatch]_vars

\* The mutating facade calls and the index maintenance, between open() and
\* close().
NextIndex ==
    \/ Open
    \/ Close
    \/ \E journal \in NamedJournals : JournalsAdd(journal)
    \/ \E id \in Ids : JournalsRemove(id)
    \/ \E id \in Ids, journal \in NamedJournals : JournalsUpdate(id, journal)
    \/ \E id \in Ids, journal \in NamedJournals : JournalsMerge(id, journal)
    \/ DeleteIndexes
    \/ RebuildIndexes

SpecIndex == Init /\ [][NextIndex]_vars

-----------------------------------------------------------------------------
(* reserialize() on a store whose records an earlier process packed: a set *)
(* is packed in its iteration order, which differs from process to process.*)

\* The orders in which tuple(S) can list the elements of S.
tuples(S) == {t \in [1..Cardinality(S) -> S] : Range(t) = S}

\* The packed forms of journal, one per iteration order of its names.
Encodings(journal) ==
    {[code |-> 10,
      data |-> [a \in DOMAIN asdict(journal) |->
                   IF a \in _collection_attrs THEN [code |-> 1, data |-> t]
                   ELSE journal[a]]] : t \in tuples(journal.names)}

\* An open store that earlier processes filled with up to MaxIds records.
InitReserialize ==
    /\ \E journals \in UNION {[1..n -> NamedJournals] : n \in 0..MaxIds} :
           LET d == filled_db(created_db(latest_schema_version), journals)
           IN  /\ metadata_cf = d.metadata
               /\ journal_names_index_cf = d.journal_names
               /\ journals_cf \in [DOMAIN d.journals -> UNION {Encodings(j) : j \in NamedJournals}]
               /\ \A id \in DOMAIN d.journals :
                      journals_cf[id] \in Encodings(_decode(d.journals[id]))
    /\ callers = [c \in 1..NumCallers |-> [pc |-> "idle", id |-> NoId, journal |-> NewJournal,
                                          returned |-> <<>>]]
    /\ _db = "DB"
    /\ db_exists = TRUE
    /\ _force_upgrade_schema = FALSE
    /\ emitted = <<>>
    /\ index_cf_dropped = FALSE
    /\ caller_batch = <<>>
    /\ last = Called("open", NoId, NewJournal, "", None, <<>>)

\* The puts of reserialize() for the records ids, in iteration order.
RECURSIVE reserialize_puts(_)
reserialize_puts(ids) ==
    IF ids = <<>> THEN <<>>
    ELSE <<batch_put(_journals_cf_name, Head(ids), _encode(get(Head(ids))))>>
         \o reserialize_puts(Tail(ids))

\* A reserialize that also writes the name index anew.
reserialize_and_reindex ==
    [write(db, reserialize_puts(sorted_ids(DOMAIN journals_cf)))
        EXCEPT !.journal_names = rebuild_indexes.journal_names]

\* JournalList.reserialize: every record is decoded and put back packed.
reserialize == write(db, reserialize_puts(sorted_ids(DOMAIN journals_cf)))

\* jdb.journals.reserialize().
Reserialize ==
    \/ ClosedCall("reserialize", NoId, NewJournal)
    \/ /\ _db # None
       /\ Commit(reserialize)
       /\ last' = [before |-> journals_cf] @@
                      Called("reserialize", NoId, NewJournal, "", None, <<>>)
       /\ UNCHANGED <<callers, lifecycle>>

NextReserialize ==
    \/ Open
    \/ Close
    \/ \E journal \in NamedJournals : JournalsAdd(journal)
    \/ \E id \in Ids : JournalsRemove(id)
    \/ \E id \in Ids, journal \in NamedJournals : JournalsUpdate(id, journal)
    \/ Reserialize

SpecReserialize == InitReserialize /\ [][NextReserialize]_vars

\* Every call that writes, on a store of any age, between open() and close().
NextCounter ==
    \/ Open
    \/ Close
    \/ \E journal \in StoredJournals : JournalsAdd(journal)
    \/ \E id \in Ids : JournalsRemove(id)
    \/ \E id \in Ids, journal \in StoredJournals : JournalsUpdate(id, journal)
    \/ \E id \in Ids, journal \in StoredJournals : JournalsMerge(id, journal)
    \/ Reserialize
    \/ DeleteIndexes
    \/ RebuildIndexes

SpecCounter == InitLife /\ [][NextCounter]_vars

-----------------------------------------------------------------------------
(* sanitize_journal_name(name).casefold() on its own, for names made of    *)
(* words joined by single spaces.                                          *)

\* The most words a generated name has.
MaxWords == 3

SanitizeWords ==
    {<<"T","h","e">>, <<"A">>, <<"l","a">>, <<"J","o","u","r","n","a","l">>,
     <<"o","f">>, <<"F","o","o",":">>, <<"S","t","u","d","y">>}

\* "The Journal of Foo: A Study", word by word.
ExampleWords ==
    <<<<"T","h","e">>, <<"J","o","u","r","n","a","l">>, <<"o","f">>,
      <<"F","o","o",":">>, <<"A">>, <<"S","t","u","d","y">>>>

\* " ".join(words)
RECURSIVE Join(_)
Join(words) ==
    IF words = <<>> THEN <<>>
    ELSE IF Len(words) = 1 THEN words[1]
    ELSE words[1] \o <<" ">> \o Join(Tail(words))

SanitizeInputs ==
    {ExampleWords} \cup UNION {[1..n -> SanitizeWords] : n \in 1..MaxWords}

InitSanitize ==
    /\ InitStore
    /\ \E words \in SanitizeInputs :
           last = [op |-> "name", words |-> words, name |-> Join(words),
                   returned |-> None, index_name |-> None]

\* journals.sanitize_journal_name(name), and the index key made of it.
SanitizeJournalName ==
    /\ last.op = "name"
    /\ last' = [last EXCEPT !.op = "sanitize_journal_name",
                            !.returned = sanitize_journal_name(last.name),
                            !.index_name = index_name(last.name)]
    /\ UNCHANGED <<store, callers, lifecycle>>

NextSanitize == SanitizeJournalName

SpecSanitize == InitSanitize /\ [][NextSanitize]_vars

-----------------------------------------------------------------------------
(* A Fetcher and the generator its fetch() returns, driven by next() and   *)
(* interrupted by cancel() (the SIGINT handler, journal_db.py:293-300).    *)

\* The most rows or entries the fetched document holds.
MaxRows == 3

\* The fetchers whose fetch() yields journals. MathSciNetFetcher.fetch
\* (fetcher.py:278-441) adds no name to its journal and yields nothing.
FetcherNames == {"CAS", "Beyond CASSI", "UBC", "MDPI"}

\* The fetchers whose loop condition reads _is_canceling (fetcher.py:67, 201,
\* 242); BeyondCassiFetcher.fetch iterates with for loops and never reads it.
ChecksCanceling(name) == name \in {"CAS", "UBC", "MDPI"}

\* The fetchers that pass over a row without yielding (fetcher.py:208, 248).
SkipsRows(name) == name \in {"UBC", "MDPI"}

\* A fetcher of each class on a document of up to MaxRows rows; fetch() has
\* returned its generator, which has not run yet.
InitFetch ==
    /\ InitStore
    /\ \E name \in FetcherNames, rows \in 0..MaxRows :
           last = [op |-> "fetch", name |-> name, rows |-> rows,
                   _is_canceling |-> FALSE, pc |-> "created", yielded |-> 0,
                   cancel_pc |-> None, cancel_yielded |-> NoId]

\* Fetcher.cancel(), at any point of the generator's life.
FetcherCancel ==
    /\ last.op \in {"fetch", "next"}
    /\ ~last._is_canceling
    /\ last' = [last EXCEPT !._is_canceling = TRUE,
                            !.cancel_pc = last.pc,
                            !.cancel_yielded = last.yielded]
    /\ UNCHANGED <<store, callers, lifecycle>>

\* The head of the loop, entered by next() on a new or suspended generator or
\* after a passed-over row: the flag is read where the loop reads it, then
\* the next row is taken or the generator ends.
FetchLoop ==
    /\ last.op \in {"fetch", "next"}
    /\ last.pc \in {"created", "suspended", "loop"}
    /\ last' = IF ChecksCanceling(last.name) /\ last._is_canceling
               THEN [last EXCEPT !.op = "next", !.pc = "ended"]
               ELSE IF last.rows = 0
               THEN [last EXCEPT !.op = "next", !.pc = "ended"]
               ELSE [last EXCEPT !.op = "next", !.pc = "row", !.rows = @ - 1]
    /\ UNCHANGED <<store, callers, lifecycle>>

\* The journal of the row is built and yielded.
FetchYield ==
    /\ last.op = "next"
    /\ last.pc = "row"
    /\ last' = [last EXCEPT !.pc = "suspended", !.yielded = @ + 1]
    /\ UNCHANGED <<store, callers, lifecycle>>

\* The row holds no journal and the loop goes on.
FetchSkip ==
    /\ last.op = "next"
    /\ last.pc = "row"
    /\ SkipsRows(last.name)
    /\ last' = [last EXCEPT !.pc = "loop"]
    /\ UNCHANGED <<store, callers, lifecycle>>

NextFetch ==
    \/ FetcherCancel
    \/ FetchLoop
    \/ FetchYield
    \/ FetchSkip

SpecFetch == InitFetch /\ [][NextFetch]_vars

-----------------------------------------------------------------------------
(* Journal.merge(base, nxt) on its own, on two records in memory.          *)

\* Base records: every scalar attribute None, empty or set.
MergeBases ==
    [names : {{}},
     issn_print : {None, "", "ABC"},
     issn_web : {None, "", "ABC"},
     iso4 : {None, "", "ABC"},
     coden : {None, "", "ABC"}]

\* Incoming records: every scalar attribute None, empty, set to the base's
\* value or set to another value.
MergeNexts ==
    [names : {{}},
     issn_print : {None, "", "ABC", "XYZ"},
     issn_web : {None, "", "ABC", "XYZ"},
     iso4 : {None, "", "ABC", "XYZ"},
     coden : {None, "", "ABC", "XYZ"}]

InitMerge ==
    /\ InitStore
    /\ \E base \in MergeBases, nxt \in MergeNexts :
           last = [op |-> "journals", base |-> base, nxt |-> nxt,
                   raised |-> "", returned |-> None, merge_args |-> <<>>]

\* Journal.merge(base, nxt): the merged record, or InvalidMerge with the path
\* and the two values.
JournalMerge ==
    /\ last.op = "journals"
    /\ LET m == Journal_merge(last.base, last.nxt)
       IN  last' = IF m.ok
                   THEN [last EXCEPT !.op = "Journal.merge", !.returned = m.base]
                   ELSE [last EXCEPT !.op = "Journal.merge", !.raised = "InvalidMerge",
                                     !.merge_args = <<m.path, m.base_value, m.nxt_value>>]
    /\ UNCHANGED <<store, callers, lifecycle>>

NextMerge == JournalMerge

SpecMerge == InitMerge /\ [][NextMerge]_vars

\* The values of names: None, empty, one name, two names.
MergeNames == {NoNames, {}, {Foo}, {foo}, {Foo, foo}}

\* Records that differ in names and in one scalar attribute.
MergeNamesBases ==
    [names : MergeNames, issn_print : {None}, issn_web : {None},
     iso4 : {None, "ABC"}, coden : {None}]

MergeNamesNexts ==
    [names : MergeNames, issn_print : {None}, issn_web : {None},
     iso4 : {None, "ABC", "XYZ"}, coden : {None}]

InitMergeNames ==
    /\ InitStore
    /\ \E a \in MergeNamesBases, b \in MergeNamesNexts :
           last = [op |-> "journals", a |-> a, b |-> b,
                   ab |-> None, ba |-> None, aa |-> None]

\* Journal.merge(a, b), Journal.merge(b, a) and Journal.merge(a, a), each on
\* fresh copies of the two records.
JournalMergeBothWays ==
    /\ last.op = "journals"
    /\ last' = [last EXCEPT !.op = "Journal.merge",
                            !.ab = Journal_merge(last.a, last.b),
                            !.ba = Journal_merge(last.b, last.a),
                            !.aa = Journal_merge(last.a, last.a)]
    /\ UNCHANGED <<store, callers, lifecycle>>

NextMergeNames == JournalMergeBothWays

SpecMergeNames == InitMergeNames /\ [][NextMergeNames]_vars

-----------------------------------------------------------------------------
(* Properties.                                                             *)

Stored(id) == get(id)

\* The ids add() has returned, caller by caller, as <<caller, position>>.
AddCalls == UNION {{<<c, i>> : i \in DOMAIN callers[c].returned} : c \in DOMAIN callers}

\* A scalar attribute present and different in both records.
ScalarConflict(base, nxt) ==
    {a \in Range(pub_attrs) \ _collection_attrs :
        base[a] # None /\ nxt[a] # None /\ base[a] # nxt[a]}

\* C1: every name of every stored record has an index entry whose key is the
\* sanitized, case-folded name and whose value is the record's id.
C1_EveryNameIndexed ==
    \A id \in DOMAIN journals_cf : \A name \in Stored(id).names :
        /\ index_name(name) \in DOMAIN journal_names_index_cf
        /\ journal_names_index_cf[index_name(name)] = id

\* C2: no orphan index entry: every index entry's id is a stored record, one
\* of whose names has the entry's key as its sanitized, case-folded form.
C2_NoOrphanIndexEntry ==
    \A key \in DOMAIN journal_names_index_cf :
        LET id == journal_names_index_cf[key]
        IN  /\ HasJournal(id)
            /\ \E name \in Stored(id).names : index_name(name) = key

\* C3: right after id = add(j), get(id) is a record equal to j attribute by
\* attribute.
C3_GetAfterAddIsEqual ==
    last.op = "add" =>
        /\ HasJournal(last.returned)
        /\ \A a \in Range(pub_attrs) : get(last.returned)[a] = last.journal[a]

\* A state right after an add of a journal with two names and with present
\* as well as absent optional attributes.
C3_Witness ==
    /\ last.op = "add"
    /\ last.journal.names = {Foo, foo}
    /\ last.journal.issn_print # None
    /\ last.journal.coden # None
    /\ last.journal.issn_web = None
    /\ last.journal.iso4 = None

\* C4: right after id = add(j), query(names_key, n) for every name n of j
\* returns one row, and it is id's.
C4_QueryAfterAddReturnsId ==
    last.op = "add" =>
        \A name \in last.journal.names :
            /\ query_names(name).raised = ""
            /\ Len(query_names(name).rows) = 1
            /\ query_names(name).rows[1][1] = last.returned

\* A state right after an add of a journal whose name another stored record
\* holds as well, in another case.
C4_Witness ==
    /\ last.op = "add"
    /\ last.journal.names = {Foo}
    /\ \E id \in DOMAIN journals_cf : id # last.returned /\ Stored(id).names = {foo}

\* C5: right after a remove(id) that returned True, the record is gone and
\* query(names_key, n) returns nothing, without failing, for every former
\* name n of the record.
C5_QueryAfterRemoveIsEmpty ==
    (last.op = "remove" /\ last.returned = TRUE) =>
        /\ ~HasJournal(last.id)
        /\ \A name \in last.journal.names :
               query_names(name) = [raised |-> "", rows |-> <<>>]

C7_ConcurrentAddsGetDistinctIds ==
    /\ \A x, y \in AddCalls :
           x # y => callers[x[1]].returned[x[2]] # callers[y[1]].returned[y[2]]
    /\ Cardinality(DOMAIN journals_cf) = Cardinality(AddCalls)

\* C8: a merge(id, next) of a next that has a scalar attribute present and
\* different in the stored record raises a conflict carrying the attribute's
\* path and both values, and leaves the three column families as they were.
C8_MergeConflictLeavesStore ==
    [][(/\ last'.op = "merge"
        /\ Merge(last'.id, last'.journal)
        /\ HasJournal(last'.id)
        /\ ScalarConflict(Stored(last'.id), last'.journal) # {}) =>
           /\ UNCHANGED store
           /\ last'.raised = "InvalidMerge"
           /\ \E a \in ScalarConflict(Stored(last'.id), last'.journal) :
                  last'.merge_args = <<<<a>>, Stored(last'.id)[a], last'.journal[a]>>]_vars

\* A state right after merge raised on iso4 "ABC" against "XYZ", for a next
\* that also brought a name the stored record lacks.
C8_Witness ==
    /\ last.op = "merge"
    /\ last.raised = "InvalidMerge"
    /\ last.merge_args = <<<<"iso4">>, "ABC", "XYZ">>
    /\ HasJournal(last.id)
    /\ last.journal.names \ Stored(last.id).names # {}

\* C9: a merge(id, next) that raises nothing leaves the store exactly as
\* update(id, merged, prev) with the pre-merge prev leaves it: the stored
\* record is the merge of prev and next, and the names next adds are indexed.
C9_MergeIsUpdateWithMerged ==
    [][(/\ last'.op = "merge"
        /\ Merge(last'.id, last'.journal)
        /\ HasJournal(last'.id)
        /\ Journal_merge(Stored(last'.id), last'.journal).ok) =>
           LET prev == Stored(last'.id)
               merged == Journal_merge(prev, last'.journal).base
               expected == write(db, update_batch(last'.id, merged, prev))
           IN  /\ journals_cf' = expected.journals
               /\ journal_names_index_cf' = expected.journal_names
               /\ metadata_cf' = expected.metadata]_vars

\* C10: an update(id, next) whose names are the stored names plus the new
\* name "Foo", on an index without the key "foo", adds the entry "foo" -> id
\* and nothing else, and deletes or changes no entry.
C10_UpdateAddsOneSanitizedEntry ==
    [][(/\ last'.op = "update"
        /\ Update(last'.id, last'.journal)
        /\ HasJournal(last'.id)
        /\ Foo \notin Stored(last'.id).names
        /\ last'.journal.names = Stored(last'.id).names \cup {Foo}
        /\ index_name(Foo) \notin DOMAIN journal_names_index_cf) =>
           /\ DOMAIN journal_names_index_cf' =
                  DOMAIN journal_names_index_cf \cup {index_name(Foo)}
           /\ journal_names_index_cf'[index_name(Foo)] = last'.id
           /\ \A key \in DOMAIN journal_names_index_cf :
                  journal_names_index_cf'[key] = journal_names_index_cf[key]]_vars

\* C12: right after add(B), for every stored record A other than B that has a
\* name with the same sanitized, case-folded form as a name m of B,
\* query(names_key, m) returns A's id, not the id the add assigned to B.
C12_QueryAfterCollidingAddReturnsOriginal ==
    last.op = "add" =>
        \A a \in DOMAIN journals_cf \ {last.returned} :
            \A n \in Stored(a).names, m \in last.journal.names :
                index_name(n) = index_name(m) =>
                    /\ query_names(m).raised = ""
                    /\ Len(query_names(m).rows) = 1
                    /\ query_names(m).rows[1][1] = a

\* One of the words _ignorable_words_regex lists, in any case.
IsArticle(word) == casefold(word) \in Range(ignorable_words)

\* The words without their first word when that is an article.
WithoutLeadingArticle(words) ==
    IF Len(words) > 1 /\ IsArticle(Head(words)) THEN Tail(words) ELSE words

\* The words without every article that another word follows.
RECURSIVE WithoutArticles(_)
WithoutArticles(words) ==
    IF Len(words) <= 1 THEN words
    ELSE IF IsArticle(Head(words)) THEN WithoutArticles(Tail(words))
    ELSE <<Head(words)>> \o WithoutArticles(Tail(words))

Absent(value) == value \in {None, ""}

\* The scalar attributes set on both sides to different values.
Unequal(base, nxt) ==
    {a \in Range(pub_attrs) \ _collection_attrs :
        ~Absent(base[a]) /\ ~Absent(nxt[a]) /\ base[a] # nxt[a]}

\* C20: Journal.merge(base, nxt) fails with a conflict exactly when some
\* scalar attribute is set on both sides to different values; otherwise, for
\* every scalar attribute, the result has the set side's value when the other
\* side is absent, and the common value when both sides are set and equal.
C20_ScalarMergeRule ==
    last.op = "Journal.merge" =>
        IF Unequal(last.base, last.nxt) # {}
        THEN last.raised = "InvalidMerge"
        ELSE /\ last.raised = ""
             /\ \A a \in Range(pub_attrs) \ _collection_attrs :
                    /\ (Absent(last.base[a]) /\ ~Absent(last.nxt[a])) =>
                           last.returned[a] = last.nxt[a]
                    /\ ~Absent(last.base[a]) => last.returned[a] = last.base[a]

\* C11: on a store that holds a record, a rebuild_indexes() called right
\* after a delete_indexes() raises nothing and leaves the name index with the
\* keys and the ids it had before the delete_indexes().
C11_RebuildRestoresIndex ==
    [][(/\ last.op = "delete_indexes"
        /\ last.raised = ""
        /\ last'.op = "rebuild_indexes"
        /\ RebuildIndexes
        /\ DOMAIN journals_cf # {}) =>
           /\ last'.raised = ""
           /\ journal_names_index_cf' = last.dropped]_vars

\* The positions of the events called name in the sequence events.
Emitted(events, name) == {i \in DOMAIN events : events[i].name = name}

\* C14: an open() of a store that did not exist puts the latest schema
\* version and the counter 0, emits created once and no upgrade event; an
\* open() of a store that existed emits no created, leaves the counter as it
\* was, and starts the migration exactly when the stored version is below
\* the latest one or the upgrade is forced.
C14_OpenCreatesOrKeeps ==
    [][(last'.op = "open" /\ Open) =>
           IF ~db_exists
           THEN /\ metadata_cf'[_schema_version_key] = latest_schema_version
                /\ metadata_cf'[_journal_id_key] = 0
                /\ Cardinality(Emitted(emitted', "created")) = 1
                /\ Emitted(emitted', "upgrade_started") = {}
           ELSE /\ Emitted(emitted', "created") = {}
                /\ metadata_cf'[_journal_id_key] = metadata_cf[_journal_id_key]
                /\ Emitted(emitted', "upgrade_started") # {} <=>
                       \/ metadata_cf[_schema_version_key] < latest_schema_version
                       \/ _force_upgrade_schema]_vars

\* A forced open() of a store of the latest version that holds a record has
\* started the migration.
C14_Witness ==
    /\ last.op = "open"
    /\ _force_upgrade_schema
    /\ metadata_cf[_schema_version_key] = latest_schema_version
    /\ DOMAIN journals_cf # {}
    /\ Emitted(emitted, "upgrade_started") # {}

\* An upgrade_progress event emitted after a record: (processed, updated).
IsRecordProgress(event) == event.name = "upgrade_progress" /\ Len(event.args) = 2

\* C15: an open() that starts the migration of a store of N records returns
\* without an error, having emitted upgrade_started(from, latest, N) first,
\* an upgrade_progress after each record, counting 1 to N, and
\* upgrade_finished(latest, N) last, and the stored version is the latest.
C15_MigrationCompletes ==
    [][(/\ last'.op = "open"
        /\ Open
        /\ db_exists
        /\ needs_upgrade(metadata_cf[_schema_version_key])) =>
           LET N == Cardinality(DOMAIN journals_cf)
               progress == SelectSeq(emitted', IsRecordProgress)
           IN  /\ last'.raised = ""
               /\ Len(emitted') >= 2
               /\ emitted'[1] = emit("upgrade_started",
                                     <<metadata_cf[_schema_version_key],
                                       latest_schema_version, N>>)
               /\ Len(progress) = N
               /\ \A k \in 1..N : progress[k].args[1] = k
               /\ emitted'[Len(emitted')] =
                      emit("upgrade_finished", <<latest_schema_version, N>>)
               /\ metadata_cf'[_schema_version_key] = latest_schema_version]_vars

\* C16: no step of open(), close() or the facade lowers the stored schema
\* version, a forced upgrade of a store of a newer version included.
C16_SchemaVersionNeverDecreases ==
    [][(_schema_version_key \in DOMAIN metadata_cf) =>
           (/\ _schema_version_key \in DOMAIN metadata_cf'
            /\ metadata_cf'[_schema_version_key] >= metadata_cf[_schema_version_key])]_vars

\* A forced open() of a store of a newer version has started the migration.
C16_Witness ==
    /\ last.op = "open"
    /\ _force_upgrade_schema
    /\ metadata_cf[_schema_version_key] > latest_schema_version
    /\ Emitted(emitted, "upgrade_started") # {}

\* C17: an open() of a store whose stored schema version is above the latest
\* one the program knows raises an error, and the store is not open after it.
C17_NewerSchemaFailsOpen ==
    [][(/\ last'.op = "open"
        /\ Open
        /\ db_exists
        /\ metadata_cf[_schema_version_key] > latest_schema_version) =>
           (/\ last'.raised # ""
            /\ _db' = None)]_vars

\* The store and facade operations C18 lists.
FacadeOps == {"get", "add", "remove", "update", "merge", "query", "schema_version"}

\* C18: while the store is closed, every get, add, remove, update, merge,
\* query and schema_version call raises an error and leaves the three column
\* families as they were.
C18_ClosedStoreRefusesCalls ==
    [][(_db = None /\ last'.op \in FacadeOps) =>
           (/\ last'.raised # ""
            /\ UNCHANGED store)]_vars

\* C19: on an open store, get(id) for an id that is not in journals_cf
\* returns None and remove(id) for such an id returns False; neither raises
\* and neither changes journals_cf, journal_names_index_cf or metadata_cf.
C19_NotFoundIsNotAnError ==
    [][(/\ _db # None
        /\ last'.op \in {"get", "remove"}
        /\ ~HasJournal(last'.id)) =>
           (/\ last'.raised = ""
            /\ IF last'.op = "get"
               THEN last'.returned = None
               ELSE last'.returned = FALSE
            /\ UNCHANGED store)]_vars

\* A get of a missing id has returned on an open store that holds a record.
C19_Witness ==
    /\ _db # None
    /\ last.op = "get"
    /\ last.raised = ""
    /\ ~HasJournal(last.id)
    /\ last.returned = None
    /\ DOMAIN journals_cf # {}

\* The names a record carries, None read as no names.
NamesOf(journal) == IF journal.names = NoNames THEN {} ELSE journal.names

\* C21: every Journal.merge of a and b that returns carries the union of
\* a.names and b.names, in either argument order, and Journal.merge(a, a)
\* carries a.names; None is read as no names.
C21_NamesMergeIsUnion ==
    last.op = "Journal.merge" =>
        /\ last.ab.ok => NamesOf(last.ab.base) = NamesOf(last.a) \cup NamesOf(last.b)
        /\ last.ba.ok => NamesOf(last.ba.base) = NamesOf(last.a) \cup NamesOf(last.b)
        /\ last.aa.ok /\ NamesOf(last.aa.base) = NamesOf(last.a)

\* Two records with different non-empty names have been merged both ways.
C21_Witness ==
    /\ last.op = "Journal.merge"
    /\ last.ab.ok /\ last.ba.ok
    /\ last.a.names = {Foo} /\ last.b.names = {foo}
    /\ last.ab.base.names = {Foo, foo}

\* C22: a reserialize() that returns leaves the ids of journals_cf and the
\* decoded value of every record as they were, and changes neither
\* journal_names_index_cf nor metadata_cf.
C22_ReserializeKeepsContent ==
    [][(last'.op = "reserialize" /\ last'.raised = "") =>
           (/\ DOMAIN journals_cf' = DOMAIN journals_cf
            /\ \A id \in DOMAIN journals_cf :
                   _decode(journals_cf'[id]) = _decode(journals_cf[id])
            /\ journal_names_index_cf' = journal_names_index_cf
            /\ metadata_cf' = metadata_cf)]_vars

\* A reserialize() has rewritten a record in another packed form.
C22_Witness ==
    /\ last.op = "reserialize"
    /\ last.raised = ""
    /\ last.before # journals_cf

\* C23: once cancel() has been called, the generator of fetch() yields at
\* most the item it was building at that moment and no item after it.
C23_NoItemAfterCancel ==
    (last.op \in {"fetch", "next"} /\ last._is_canceling) =>
        last.yielded <= last.cancel_yielded + (IF last.cancel_pc = "row" THEN 1 ELSE 0)

\* C24: in every state, add() calls in flight or not, the counter has grown
\* once per add() that has written its batch, the record of every id an
\* add() returned is stored, and every name of every stored record has its
\* index entry.
C24_AddIsAtomic ==
    /\ next_journal_id = Cardinality(AddCalls)
    /\ \A x \in AddCalls : HasJournal(callers[x[1]].returned[x[2]])
    /\ \A id \in DOMAIN journals_cf :
           \A name \in get(id).names : index_name(name) \in DOMAIN journal_names_index_cf

\* One add() has written its batch while another holds an id it has read
\* and a batch it has not written yet.
C24_Witness ==
    \E c, d \in DOMAIN callers :
        /\ callers[c].pc = "write"
        /\ callers[d].returned # <<>>
        /\ next_journal_id = 1
        /\ HasJournal(callers[d].returned[1])

\* The counter is stored.
HasCounter == _journal_id_key \in DOMAIN metadata_cf

\* C25: the stored journal_id counter is greater than every id of
\* journals_cf, and no open, add, remove, update, merge, reserialize,
\* rebuild_indexes or close makes it smaller.
C25_CounterGrowsAboveIds ==
    /\ [](HasCounter => \A id \in DOMAIN journals_cf : id < next_journal_id)
    /\ [][(HasCounter => (HasCounter' /\ next_journal_id' >= next_journal_id))]_vars

\* A record has been removed from a store that still holds another one.
C25_Witness ==
    /\ HasCounter
    /\ last.op = "remove"
    /\ last.raised = ""
    /\ last.returned = TRUE
    /\ DOMAIN journals_cf # {}
    /\ next_journal_id > Cardinality(DOMAIN journals_cf)

\* C26: an open() that migrates a store of N records reports every one of
\* them as processed and none as updated, upgrade_progress(k, 0) for k = 1
\* to N, and leaves journals_cf and journal_names_index_cf as they were.
C26_MigrationWritesNothingBack ==
    [][(/\ last'.op = "open"
        /\ Open
        /\ db_exists
        /\ needs_upgrade(metadata_cf[_schema_version_key])) =>
           LET N == Cardinality(DOMAIN journals_cf)
               progress == SelectSeq(emitted', IsRecordProgress)
           IN  (/\ journals_cf' = journals_cf
                /\ journal_names_index_cf' = journal_names_index_cf
                /\ Len(progress) = N
                /\ \A k \in 1..Len(progress) : progress[k].args[2] = 0)]_vars

\* The index keys that map to id in the index f.
KeysOf(f, id) == {key \in DOMAIN f : f[key] = id}

\* The index keys of the names of journal.
IndexNames(journal) == {index_name(name) : name \in journal.names}

\* C27: an update(id, next) that returns, made when the index entries that
\* map to id are not the sanitized, case-folded names of the stored record
\* and no other record has a name of next, leaves exactly the sanitized,
\* case-folded names of next mapping to id.
C27_UpdateHealsIndex ==
    [][(/\ last'.op = "update"
        /\ last'.raised = ""
        /\ Update(last'.id, last'.journal)
        /\ HasJournal(last'.id)
        /\ KeysOf(journal_names_index_cf, last'.id) # IndexNames(Stored(last'.id))
        /\ \A other \in DOMAIN journals_cf \ {last'.id} :
               IndexNames(Stored(other)) \cap IndexNames(last'.journal) = {}) =>
           KeysOf(journal_names_index_cf', last'.id) = IndexNames(last'.journal)]_vars

\* C28: a query(key, value) on a scalar key returns, without raising, the
\* (id, record) pairs of exactly the stored records whose attribute key is
\* set and equals value up to case; records without the attribute are
\* passed over.
C28_ScalarQuerySkipsAbsent ==
    (last.op = "query" /\ "key" \in DOMAIN last) =>
        /\ last.raised = ""
        /\ Range(last.returned) =
               {<<id, get(id)>> : id \in
                   {i \in DOMAIN journals_cf :
                       /\ get(i)[last.key] # None
                       /\ casefold_str(get(i)[last.key]) = casefold_str(last.value)}}

\* The ids under which batch puts records.
RecordIdsIn(batch) ==
    {batch[i].key : i \in {i \in DOMAIN batch :
                              batch[i].op = "put" /\ batch[i].cf = _journals_cf_name}}

\* C29: when a batch that two add() calls appended to is written, the two
\* calls were given different ids, both records are stored afterwards and
\* the counter has grown by 2.
C29_AddsInOneBatchGetDistinctIds ==
    [][(/\ last'.op = "write"
        /\ last'.raised = ""
        /\ AddsIn(caller_batch) = 2) =>
           (/\ Cardinality(RecordIdsIn(caller_batch)) = 2
            /\ RecordIdsIn(caller_batch) \subseteq DOMAIN journals_cf'
            /\ next_journal_id' = next_journal_id + 2)]_vars

\* C30: a remove(id) or update(id, next) that returns leaves every index
\* entry that maps to another stored record in place, mapping to that record.
C30_OtherRecordsEntriesKept ==
    [][(/\ last'.op \in {"remove", "update"}
        /\ last'.raised = ""
        /\ Remove(last'.id) \/ Update(last'.id, last'.journal)) =>
           \A key \in DOMAIN journal_names_index_cf :
               (/\ journal_names_index_cf[key] # last'.id
                /\ HasJournal(journal_names_index_cf[key])) =>
                   (/\ key \in DOMAIN journal_names_index_cf'
                    /\ journal_names_index_cf'[key] = journal_names_index_cf[key])]_vars

====
